---- MODULE Spec2Model ----
(***************************************************************************)
(* Model of the FaceForge desktop service orchestrator                     *)
(* (desktop/src-tauri/src/orchestrator.rs, main.rs, ports.rs).             *)
(*                                                                         *)
(* An Option<T> is a sequence: None is <<>>, Some(x) is <<x>>.             *)
(* A Child handle is [pid |-> n]; the operating system's truth about the   *)
(* processes lives in os.core_live / os.seaweed_live (the pids that were   *)
(* spawned and have not terminated).                                      *)
(*                                                                         *)
(* An Instant is held as its age, the milliseconds elapsed since it was    *)
(* taken, which is all the code reads from it (Instant::elapsed).  A sleep *)
(* lasts at least its duration (the scheduler and the lock add to it), so  *)
(* an age is known up to the thresholds the code compares it with: it is   *)
(* kept as the lower end of its interval [0, GraceMs), [GraceMs, FatalMs]  *)
(* or (FatalMs, oo), and a sleep moves it to any interval it can reach.    *)
(***************************************************************************)
EXTENDS Integers, Sequences, FiniteSets, TLC

\* ------------------------------------------------------------------ bounds
\* Indeterminate liveness polls (of a start or a tick) and failed terminations
\* in one behaviour.
MaxFaults == 1
\* Writes a log file holds at most.
MaxChunks == 3

\* ------------------------------------------------------- program constants
RestartCap == 3
BackoffBaseMs == 500
GraceMs == 2000
FatalMs == 10000
TickSleepMs == 2000
ReadinessMs == 2000
MasterPort == 9333
VolumePort == 8080
FilerPort == 8888
CorePort == 43210
S3Port == 43211

None == <<>>
Some(x) == <<x>>

\* ----------------------------------------------------------------- state
VARIABLES settings, orchestrator, desired_running, os, bg_pc, restart_pc, faults, ret,
          monitor, logs, app_pc

vars == <<settings, orchestrator, desired_running, os, bg_pc, restart_pc, faults, ret,
          monitor, logs, app_pc>>

\* WizardSettings values the wizard can save (the fields the orchestrator reads).
Settings(enabled, auto, minimize) ==
    [core_port |-> CorePort,
     seaweed_enabled |-> enabled,
     seaweed_s3_port |-> IF enabled THEN Some(S3Port) ELSE None,
     seaweed_weed_path |-> None,
     auto_restart |-> auto,
     minimize_on_exit |-> minimize]

WizardSettings ==
    {Settings(TRUE, TRUE, TRUE), Settings(FALSE, TRUE, FALSE), Settings(FALSE, FALSE, FALSE)}

\* Orchestrator::new
NewOrchestrator ==
    [core_child |-> None,
     seaweed_child |-> None,
     last_seaweed_error |-> None,
     last_core_start |-> None,
     core_restart_attempts |-> 0]

\* The operating system as the orchestrator sees it.
NewOs ==
    [core_live |-> {},
     seaweed_live |-> {},
     ports_file |-> None]

Err(kind, detail) == [kind |-> kind, detail |-> detail]

\* Instant::now and Instant::elapsed
InstantNow == 0
Elapsed(t0) == t0

\* The ages told apart, and the end of the interval each stands for.
Ages == {0, GraceMs, FatalMs + 1}
AgeEnd(a) == IF a < GraceMs THEN GraceMs ELSE FatalMs + 1

\* The ages an Instant of age a can show after a sleep of at least ms.
After(a, ms) == {b \in Ages : b >= a /\ (b > FatalMs \/ AgeEnd(b) > a + ms)}

\* last_core_start as it can read after a sleep of at least ms.
AfterSleep(o, ms) ==
    IF o.last_core_start = None THEN {None}
    ELSE {Some(b) : b \in After(o.last_core_start[1], ms)}

\* std::thread::sleep while the lock is held; slept is what last_core_start
\* reads afterwards.
Sleep(w, slept) == [w EXCEPT !.o.last_core_start = slept]

\* A pid no live process and no handle of the slot carries.
FreshPid(slot, live) ==
    CHOOSE p \in 1..(MaxFaults + 2) :
        /\ p \notin live \cup {c.pid : c \in {slot[i] : i \in 1..Len(slot)}}
        /\ \A q \in 1..(p - 1) : q \in live \cup {c.pid : c \in {slot[i] : i \in 1..Len(slot)}}

\* ------------------------------------------------------ liveness polling
\* Child::try_wait: Ok(Some(status)) when the process has exited, Ok(None)
\* while it runs, Err when the poll itself fails (whatever the process does).
try_wait(live, child, poll_err) ==
    IF poll_err THEN "Err"
    ELSE IF child.pid \in live THEN "OkNone" ELSE "OkSome"

\* The poll outcomes a slot can produce: an empty slot is never polled.
PollInputs(slot) == IF slot = None THEN {FALSE} ELSE BOOLEAN
PollFault(poll_err) == IF poll_err THEN 1 ELSE 0

\* is_core_running as it would be if the handle of an exited process stayed in
\* the slot.
is_core_running_keeping_handle(w, poll_err) ==
    IF w.o.core_child # None
    THEN [w |-> w, r |-> try_wait(w.os.core_live, w.o.core_child[1], poll_err) = "OkNone"]
    ELSE [w |-> w, r |-> FALSE]

is_core_running(w, poll_err) ==
    IF w.o.core_child # None
    THEN LET st == try_wait(w.os.core_live, w.o.core_child[1], poll_err) IN
         IF st = "OkSome" THEN [w |-> [w EXCEPT !.o.core_child = None], r |-> FALSE]
         ELSE IF st = "OkNone" THEN [w |-> w, r |-> TRUE]
         ELSE [w |-> w, r |-> FALSE]
    ELSE [w |-> w, r |-> FALSE]

is_seaweed_running(w, poll_err) ==
    IF w.o.seaweed_child # None
    THEN LET st == try_wait(w.os.seaweed_live, w.o.seaweed_child[1], poll_err) IN
         IF st = "OkSome" THEN [w |-> [w EXCEPT !.o.seaweed_child = None], r |-> FALSE]
         ELSE IF st = "OkNone" THEN [w |-> w, r |-> TRUE]
         ELSE [w |-> w, r |-> FALSE]
    ELSE [w |-> w, r |-> FALSE]

\* ------------------------------------------------------------------ stop
\* kill_ok / wait_ok: the results of Child::kill and Child::wait, both
\* discarded by the code.  The process is gone when the kill was delivered or
\* when wait returned its exit status; when both fail it is left as it was.
AllStopInputs == [kill_ok : BOOLEAN, wait_ok : BOOLEAN]
StopInputs(slot, live) ==
    IF slot # None /\ slot[1].pid \in live
    THEN {[kill_ok |-> TRUE, wait_ok |-> TRUE], [kill_ok |-> FALSE, wait_ok |-> FALSE]}
    ELSE {[kill_ok |-> TRUE, wait_ok |-> TRUE]}
StopFault(in) == IF ~in.kill_ok /\ ~in.wait_ok THEN 1 ELSE 0

\* stop_core as it would be if the slot were cleared only once the process is
\* known to be gone.
stop_core_when_gone(w, in) ==
    IF w.o.core_child # None /\ (in.kill_ok \/ in.wait_ok)
    THEN [w EXCEPT !.o.core_child = None, !.os.core_live = @ \ {w.o.core_child[1].pid},
                   !.ev = Append(@, <<"kill", "core">>)]
    ELSE IF w.o.core_child # None THEN [w EXCEPT !.ev = Append(@, <<"kill", "core">>)]
    ELSE w

\* stop_core as it would be if a stop also cleared the restart counter.
stop_core_resetting_counter(w, in) ==
    IF w.o.core_child # None
    THEN [w EXCEPT !.o.core_child = None,
                   !.o.core_restart_attempts = 0,
                   !.os.core_live = IF in.kill_ok \/ in.wait_ok
                                    THEN @ \ {w.o.core_child[1].pid} ELSE @,
                   !.ev = Append(@, <<"kill", "core">>)]
    ELSE [w EXCEPT !.o.core_restart_attempts = 0]

stop_core(w, in) ==
    IF w.o.core_child # None
    THEN LET c == w.o.core_child[1] IN
         [w EXCEPT !.o.core_child = None,
                   !.os.core_live = IF in.kill_ok \/ in.wait_ok THEN @ \ {c.pid} ELSE @,
                   !.ev = Append(@, <<"kill", "core">>)]
    ELSE w

\* stop_seaweed as it would be if a stop also forgot the last error.
stop_seaweed_forgetting(w, in) ==
    [w EXCEPT !.o.seaweed_child = None,
              !.o.last_seaweed_error = None,
              !.os.seaweed_live =
                  IF w.o.seaweed_child # None /\ (in.kill_ok \/ in.wait_ok)
                  THEN @ \ {w.o.seaweed_child[1].pid} ELSE @,
              !.ev = IF w.o.seaweed_child # None THEN Append(@, <<"kill", "seaweed">>) ELSE @]

stop_seaweed(w, in) ==
    IF w.o.seaweed_child # None
    THEN LET c == w.o.seaweed_child[1] IN
         [w EXCEPT !.o.seaweed_child = None,
                   !.os.seaweed_live = IF in.kill_ok \/ in.wait_ok THEN @ \ {c.pid} ELSE @,
                   !.ev = Append(@, <<"kill", "seaweed">>)]
    ELSE w

\* ------------------------------------------------------------- log files
\* A path is the pair <<stem, extension>>, a directory the function from the
\* paths it holds to their content, a content the sequence of the writes made
\* to the file, each given by its length in bytes.
MiB == 1024 * 1024
Chunks == {1, MiB}
LogSizes == {0, 1, 2}
CoreLog == <<"core", "log">>
EmptyDir == [p \in {} |-> <<>>]

with_extension(path, ext) == <<path[1], ext>>

\* Metadata::len
RECURSIVE FileLen(_)
FileLen(c) == IF c = <<>> THEN 0 ELSE Head(c) + FileLen(Tail(c))

Max(a, b) == IF a >= b THEN a ELSE b

remove_file(dir, path) == [p \in DOMAIN dir \ {path} |-> dir[p]]

rename(dir, from, to) ==
    [p \in (DOMAIN dir \ {from}) \cup {to} |-> IF p = to THEN dir[from] ELSE dir[p]]

\* OpenOptions::new().create(true).append(true).open
open_append(dir, path) ==
    IF path \in DOMAIN dir THEN dir
    ELSE [p \in DOMAIN dir \cup {path} |-> IF p = path THEN <<>> ELSE dir[p]]

\* The results of the four file-system calls; those of remove_file and rename
\* are discarded by the code.
AllLogInputs == [meta_ok : BOOLEAN, remove_ok : BOOLEAN, rename_ok : BOOLEAN, open_ok : BOOLEAN]

prepare_log_file(dir, log_path, max_log_size_mb, in) ==
    LET max_bytes == Max(max_log_size_mb, 1) * 1024 * 1024
        d1 == IF log_path \in DOMAIN dir /\ in.meta_ok /\ FileLen(dir[log_path]) > max_bytes
              THEN LET rotated == with_extension(log_path, "log.1")
                       removed == IF in.remove_ok /\ rotated \in DOMAIN dir
                                  THEN remove_file(dir, rotated) ELSE dir
                   IN IF in.rename_ok THEN rename(removed, log_path, rotated) ELSE removed
              ELSE dir
    IN IF in.open_ok THEN [dir |-> open_append(d1, log_path), ok |-> TRUE]
       ELSE [dir |-> d1, ok |-> FALSE]

\* ----------------------------------------------------------- ports file
\* write_ports as it would be if it wrote nothing.
write_ports_dropped(w, ports) == w

\* A write that succeeds; it joins the calls of the handler at work.
write_ports(w, ports) ==
    [w EXCEPT !.os.ports_file = Some(ports), !.ev = Append(@, <<"write", "ports">>)]

RuntimePorts(s) == [core |-> Some(s.core_port), seaweed_s3 |-> s.seaweed_s3_port]

\* ----------------------------------------------------- binary resolution
\* A path is the pair <<directory, file name>>; `exists` is the set of paths
\* present on disk.
ToolsDirs == <<"repo/tools", "repo/desktop/src-tauri/resources/tools", "repo/../resources/tools">>
HomeToolsDir == "home/tools"
ExplicitWeed == <<"explicit", "weed.exe">>
Join(dir, file) == <<dir, file>>

RECURSIVE ToolsCandidates(_)
ToolsCandidates(i) ==
    IF i > Len(ToolsDirs) THEN <<>>
    ELSE << Join(ToolsDirs[i], "weed.exe"),
            Join(ToolsDirs[i], "weed"),
            Join(HomeToolsDir, "weed.exe") >> \o ToolsCandidates(i + 1)

weed_candidates(s, exists) ==
    (IF s.seaweed_weed_path # None /\ s.seaweed_weed_path[1] \in exists
     THEN <<s.seaweed_weed_path[1]>> ELSE <<>>)
    \o ToolsCandidates(1)

RECURSIVE FirstExisting(_, _)
FirstExisting(cands, exists) ==
    IF cands = <<>> THEN None
    ELSE IF Head(cands) \in exists THEN Some(Head(cands))
    ELSE FirstExisting(Tail(cands), exists)

resolve_weed_path(s, exists) ==
    IF s.seaweed_weed_path # None /\ s.seaweed_weed_path[1] \in exists
    THEN Some(s.seaweed_weed_path[1])
    ELSE FirstExisting(weed_candidates(s, exists), exists)

\* The interpreter of a development checkout (find_venv_python).
VenvCandidates ==
    << Join("repo/.venv/Scripts", "python.exe"), Join("repo/.venv/bin", "python") >>

find_venv_python(exists) == FirstExisting(VenvCandidates, exists)

\* A sidecar as the bundler may name it, beside the desktop executable.
SidecarTriple == Join("exe", "faceforge-core-x86_64-pc-windows-msvc.exe")

\* The candidates of resolve_core_sidecar: the fixed ones, then the files of
\* the executable's directory whose name starts with faceforge-core.
core_sidecar_candidates(exists) ==
    << Join("repo/desktop/src-tauri/binaries", "faceforge-core.exe"),
       Join("repo/desktop/src-tauri/binaries", "faceforge-core"),
       Join("exe", "faceforge-core.exe"),
       Join("exe", "faceforge-core"),
       Join("exe/binaries", "faceforge-core.exe"),
       Join("exe/binaries", "faceforge-core") >>
    \o (IF SidecarTriple \in exists THEN <<SidecarTriple>> ELSE <<>>)

\* The error names no path: its text is fixed.
resolve_core_sidecar(exists) ==
    LET c == FirstExisting(core_sidecar_candidates(exists), exists) IN
    IF c # None THEN [ok |-> TRUE, path |-> c, err |-> None]
    ELSE [ok |-> FALSE, path |-> None, err |-> Some(Err("core_not_found", <<>>))]

\* ------------------------------------------------------------ start_core
\* outcome: the first step of start_core that fails, or "spawn" when the
\* process is spawned; "not_found" is a disk on which neither the interpreter
\* nor any sidecar candidate exists.
CoreFails == {"write_ports_failed", "not_found", "io_failed", "spawn_failed"}
\* The failure the starts of a behaviour run into; the others leave the same
\* state behind, but for the ports file, and are covered where a property
\* ranges over AllStartCoreInputs.
CoreFailSamples == {"spawn_failed"}

CoreOutcomes ==
    CoreFailSamples \cup {"spawn"}

StartCoreInputs(w) ==
    UNION { LET r == is_core_running(w, p) IN
            IF r.r THEN {[poll_err |-> p, outcome |-> "spawn_failed"]}
            ELSE {[poll_err |-> p, outcome |-> oc] : oc \in CoreOutcomes}
          : p \in PollInputs(w.o.core_child) }

start_core(w, s, in) ==
    LET r == is_core_running(w, in.poll_err) IN
    IF r.r
    THEN [w |-> r.w, ok |-> TRUE, err |-> None, path |-> "already_running"]
    ELSE IF in.outcome = "write_ports_failed"
    THEN [w |-> r.w, ok |-> FALSE, err |-> Some(Err("write_ports", <<>>)),
          path |-> "write_ports_failed"]
    ELSE LET w1 == write_ports(r.w, RuntimePorts(s)) IN
    IF in.outcome = "not_found"
    THEN [w |-> w1, ok |-> FALSE, err |-> resolve_core_sidecar({}).err,
          path |-> "not_found"]
    ELSE IF in.outcome = "io_failed"
    THEN [w |-> w1, ok |-> FALSE, err |-> Some(Err("io", <<>>)), path |-> "io_failed"]
    ELSE IF in.outcome = "spawn_failed"
    THEN [w |-> [w1 EXCEPT !.ev = Append(@, <<"spawn", "core">>)],
          ok |-> FALSE, err |-> Some(Err("core_spawn", <<>>)),
          path |-> "spawn_failed"]
    ELSE LET pid == FreshPid(w1.o.core_child, w1.os.core_live) IN
         [w |-> [w1 EXCEPT !.o.core_child = Some([pid |-> pid]),
                           !.o.last_core_start = Some(InstantNow),
                           !.o.core_restart_attempts = 0,
                           !.os.core_live = @ \cup {pid},
                           !.ev = Append(@, <<"spawn", "core">>)],
          ok |-> TRUE, err |-> None, path |-> "spawned"]

\* ------------------------------------------------------- port preflight
\* `open` is the set of loopback ports that accept a connection.
tcp_port_open(open, port) == port \in open

SeaweedPorts(s3_port) ==
    << <<"master", MasterPort>>, <<"volume", VolumePort>>,
       <<"filer", FilerPort>>, <<"s3", s3_port>> >>

PreflightConflicts(s3_port, open) ==
    SelectSeq(SeaweedPorts(s3_port), LAMBDA np : tcp_port_open(open, np[2]))

\* ----------------------------------------------- start_seaweed_if_enabled
\* The filesystem contents a start may find (samples of the candidate paths).
FsSamples == { {}, {Join(ToolsDirs[1], "weed.exe")} }

PortSets == SUBSET {MasterPort, VolumePort, FilerPort, S3Port}
\* The listeners a start's preflight may find.
PortSamples == { {}, {MasterPort, S3Port} }

\* fail: the first failing I/O step of the closure, or "none".
\* ready: how the readiness window ends once the child is spawned: the S3 port
\* answers ("ready"), a poll of the window finds the child exited ("exited"),
\* the window runs out over a child that is alive ("timeout"), or it runs out
\* over a child that exited after the last poll or whose polls failed
\* ("exited_unseen").
SeaweedFails == {"none", "invalid_exe", "mkdir_data", "log_io", "spawn"}
SeaweedReady == {"ready", "exited", "timeout", "exited_unseen"}

SeaweedDefault(p) ==
    [poll_err |-> p, exists |-> {}, open |-> {}, fail |-> "none", ready |-> "ready",
     slept |-> None]

\* The inputs that decide a start, each point of failure taken once.
StartSeaweedInputs(w, s) ==
    IF ~s.seaweed_enabled THEN {SeaweedDefault(FALSE)}
    ELSE UNION {
        IF is_seaweed_running(w, p).r THEN {SeaweedDefault(p)}
        ELSE {SeaweedDefault(p)}
             \cup {[SeaweedDefault(p) EXCEPT !.exists = ex, !.open = op]
                     : ex \in FsSamples \ {{}}, op \in PortSamples \ {{}}}
             \cup     ({[SeaweedDefault(p) EXCEPT !.exists = ex, !.ready = rd,
                                                   !.slept = w.o.last_core_start]
                           : ex \in FsSamples \ {{}}, rd \in {"ready", "exited"}}
                        \cup
                        {[SeaweedDefault(p) EXCEPT !.exists = ex, !.ready = rd,
                                                   !.slept = sl]
                           : ex \in FsSamples \ {{}}, rd \in {"timeout", "exited_unseen"},
                             sl \in AfterSleep(w.o, ReadinessMs)})
      : p \in PollInputs(w.o.seaweed_child) }

\* The closure of start_seaweed_if_enabled (orchestrator.rs 221-376).
StartSeaweedClosure(w, s, in) ==
    LET weed == resolve_weed_path(s, in.exists) IN
    IF weed = None
    THEN [w |-> w, ok |-> FALSE, path |-> "not_found",
          err |-> Some(Err("weed_not_found", weed_candidates(s, in.exists)))]
    ELSE IF in.fail = "invalid_exe"
    THEN [w |-> w, ok |-> FALSE, path |-> "invalid_exe",
          err |-> Some(Err("invalid_executable", <<weed[1]>>))]
    ELSE IF s.seaweed_s3_port = None
    THEN [w |-> w, ok |-> FALSE, path |-> "no_s3_port",
          err |-> Some(Err("s3_port_not_set", <<>>))]
    ELSE IF in.fail = "mkdir_data"
    THEN [w |-> w, ok |-> FALSE, path |-> "io_failed", err |-> Some(Err("io", <<>>))]
    ELSE LET conflicts == PreflightConflicts(s.seaweed_s3_port[1], in.open) IN
    IF conflicts # <<>>
    THEN [w |-> w, ok |-> FALSE, path |-> "port_conflict",
          err |-> Some(Err("port_conflict", conflicts))]
    ELSE IF in.fail = "log_io"
    THEN [w |-> w, ok |-> FALSE, path |-> "io_failed", err |-> Some(Err("io", <<>>))]
    ELSE IF in.fail = "spawn"
    THEN [w |-> [w EXCEPT !.ev = Append(@, <<"spawn", "seaweed">>)],
          ok |-> FALSE, path |-> "spawn_failed",
          err |-> Some(Err("seaweed_spawn", <<weed[1]>>))]
    ELSE LET pid == FreshPid(w.o.seaweed_child, w.os.seaweed_live)
             w1 == [w EXCEPT !.o.seaweed_child = Some([pid |-> pid]),
                             !.os.seaweed_live = @ \cup {pid},
                             !.ev = Append(@, <<"spawn", "seaweed">>)]
         IN
         IF in.ready = "ready"
         THEN [w |-> w1, ok |-> TRUE, path |-> "ready", err |-> None]
         ELSE IF in.ready = "exited"
         THEN [w |-> [w1 EXCEPT !.o.seaweed_child = None,
                                !.os.seaweed_live = @ \ {pid}],
               ok |-> FALSE, path |-> "exited_early",
               err |-> Some(Err("exited_immediately", <<>>))]
         ELSE IF in.ready = "timeout"
         THEN [w |-> Sleep(w1, in.slept), ok |-> TRUE, path |-> "timeout",
               err |-> None]
         ELSE [w |-> Sleep([w1 EXCEPT !.os.seaweed_live = @ \ {pid}], in.slept),
               ok |-> TRUE, path |-> "exited_unseen", err |-> None]

\* start_seaweed_if_enabled as it would be if a success left the last error as
\* it was.
start_seaweed_keeping_error(w, s, in) ==
    IF ~s.seaweed_enabled
    THEN [w |-> w, ok |-> TRUE, err |-> None, path |-> "disabled"]
    ELSE LET r == is_seaweed_running(w, in.poll_err) IN
    IF r.r
    THEN [w |-> r.w, ok |-> TRUE, err |-> None, path |-> "already_running"]
    ELSE LET result == StartSeaweedClosure(r.w, s, in) IN
         IF result.ok
         THEN result
         ELSE [result EXCEPT !.w.o.last_seaweed_error = result.err]

start_seaweed_if_enabled(w, s, in) ==
    IF ~s.seaweed_enabled
    THEN [w |-> w, ok |-> TRUE, err |-> None, path |-> "disabled"]
    ELSE LET r == is_seaweed_running(w, in.poll_err) IN
    IF r.r
    THEN [w |-> r.w, ok |-> TRUE, err |-> None, path |-> "already_running"]
    ELSE LET result == StartSeaweedClosure(r.w, s, in) IN
         IF result.ok
         THEN [result EXCEPT !.w.o.last_seaweed_error = None]
         ELSE [result EXCEPT !.w.o.last_seaweed_error = result.err]

\* ---------------------------------------------------------- health probe
\* open: the loopback ports that accept a connection, whoever listens there.
core_healthy(s, open) == tcp_port_open(open, s.core_port)

\* What a probe of the core port can find: no listener, or one.
ProbeSamples == { {}, {CorePort} }

\* --------------------------------------------------------- restart policy
\* The backoff as it would be if it grew by the base at each attempt.
BackoffLinear(attempts) == BackoffBaseMs * (attempts + 1)

BackoffMs(attempts) == BackoffBaseMs * (2 ^ attempts)

TickDefault(p) ==
    [poll_err |-> p, slept |-> None, open |-> {},
     stop |-> [kill_ok |-> TRUE, wait_ok |-> TRUE],
     start |-> [poll_err |-> FALSE, outcome |-> "spawn_failed"]]

InGrace(w) ==
    w.o.last_core_start # None /\ Elapsed(w.o.last_core_start[1]) < GraceMs

\* PastFatal as it would be if an unhealthy primary were given up on as soon as
\* the grace period is over.
PastFatalFromGrace(w) ==
    w.o.last_core_start # None /\ Elapsed(w.o.last_core_start[1]) >= GraceMs

PastFatal(w) ==
    w.o.last_core_start # None /\ Elapsed(w.o.last_core_start[1]) > FatalMs

\* The inputs that decide a tick, following the branch the tick takes.
TickInputs(w) ==
    UNION {
        LET r == is_core_running(w, p) IN
        IF ~r.r
        THEN IF r.w.o.core_restart_attempts < RestartCap
             THEN UNION {
                    {[TickDefault(p) EXCEPT !.slept = sl, !.start = si]
                       : si \in StartCoreInputs(Sleep(r.w, sl))}
                    : sl \in AfterSleep(r.w.o, BackoffMs(r.w.o.core_restart_attempts)) }
             ELSE {TickDefault(p)}
        ELSE IF InGrace(r.w) THEN {TickDefault(p)}
        ELSE {[TickDefault(p) EXCEPT !.open = {CorePort}]}
             \cup (IF ~PastFatal(r.w) THEN {TickDefault(p)}
                   ELSE UNION {
                          {[TickDefault(p) EXCEPT !.stop = st, !.start = si]
                             : si \in StartCoreInputs(stop_core(r.w, st))}
                          : st \in StopInputs(r.w.o.core_child, r.w.os.core_live) })
      : p \in PollInputs(w.o.core_child) }

\* The tick as it would be if a healthy probe left the restart counter alone.
tick_keeping_counter(w, s, in) ==
    LET r == is_core_running(w, in.poll_err) IN
    IF ~r.r
    THEN IF r.w.o.core_restart_attempts < RestartCap
         THEN LET backoff_ms == BackoffMs(r.w.o.core_restart_attempts)
                  sc == start_core(Sleep(r.w, in.slept), s, in.start)
              IN
              IF sc.ok
              THEN [w |-> [sc.w EXCEPT !.o.core_restart_attempts = @ + 1],
                    path |-> "restart_ok", core |-> sc.path, backoff_ms |-> backoff_ms]
              ELSE [w |-> sc.w, path |-> "restart_failed", core |-> sc.path,
                    backoff_ms |-> backoff_ms]
         ELSE [w |-> r.w, path |-> "capped", core |-> "-", backoff_ms |-> 0]
    ELSE IF InGrace(r.w)
    THEN [w |-> r.w, path |-> "grace", core |-> "-", backoff_ms |-> 0]
    ELSE IF core_healthy(s, in.open)
    THEN [w |-> r.w, path |-> "healthy", core |-> "-", backoff_ms |-> 0]
    ELSE IF PastFatal(r.w)
    THEN LET sc == start_core(stop_core(r.w, in.stop), s, in.start) IN
         [w |-> [sc.w EXCEPT !.o.last_core_start = Some(InstantNow),
                             !.o.core_restart_attempts = 1],
          path |-> "fatal_restart", core |-> sc.path, backoff_ms |-> 0]
    ELSE [w |-> r.w, path |-> "unhealthy", core |-> "-", backoff_ms |-> 0]

tick_health_and_maybe_restart(w, s, in) ==
    LET r == is_core_running(w, in.poll_err) IN
    IF ~r.r
    THEN IF r.w.o.core_restart_attempts < RestartCap
         THEN LET backoff_ms == BackoffMs(r.w.o.core_restart_attempts)
                  sc == start_core(Sleep(r.w, in.slept), s, in.start)
              IN
              IF sc.ok
              THEN [w |-> [sc.w EXCEPT !.o.core_restart_attempts = @ + 1],
                    path |-> "restart_ok", core |-> sc.path, backoff_ms |-> backoff_ms]
              ELSE [w |-> sc.w, path |-> "restart_failed", core |-> sc.path,
                    backoff_ms |-> backoff_ms]
         ELSE [w |-> r.w, path |-> "capped", core |-> "-", backoff_ms |-> 0]
    ELSE IF InGrace(r.w)
    THEN [w |-> r.w, path |-> "grace", core |-> "-", backoff_ms |-> 0]
    ELSE IF core_healthy(s, in.open)
    THEN [w |-> [r.w EXCEPT !.o.core_restart_attempts = 0],
          path |-> "healthy", core |-> "-", backoff_ms |-> 0]
    ELSE IF PastFatal(r.w)
    THEN LET sc == start_core(stop_core(r.w, in.stop), s, in.start) IN
         [w |-> [sc.w EXCEPT !.o.last_core_start = Some(InstantNow),
                             !.o.core_restart_attempts = 1],
          path |-> "fatal_restart", core |-> sc.path, backoff_ms |-> 0]
    ELSE [w |-> r.w, path |-> "unhealthy", core |-> "-", backoff_ms |-> 0]

\* -------------------------------------------------------- status snapshot
\* status_snapshot as it would be if a primary that is not running were
\* reported unhealthy whatever the probe found.
status_snapshot_of_running(w, s, healthy, in) ==
    LET rc == is_core_running(w, in.core_poll_err)
        rs == is_seaweed_running(rc.w, in.seaweed_poll_err)
    IN [w |-> rs.w,
        status |-> [core_running |-> rc.r,
                    core_healthy |-> healthy /\ rc.r,
                    seaweed_enabled |-> s.seaweed_enabled,
                    seaweed_running |-> rs.r,
                    seaweed_s3_port |-> s.seaweed_s3_port,
                    seaweed_last_error |-> rs.w.o.last_seaweed_error]]

status_snapshot(w, s, healthy, in) ==
    LET rc == is_core_running(w, in.core_poll_err)
        rs == is_seaweed_running(rc.w, in.seaweed_poll_err)
    IN [w |-> rs.w,
        status |-> [core_running |-> rc.r,
                    core_healthy |-> healthy,
                    seaweed_enabled |-> s.seaweed_enabled,
                    seaweed_running |-> rs.r,
                    seaweed_s3_port |-> s.seaweed_s3_port,
                    seaweed_last_error |-> rs.w.o.last_seaweed_error]]

\* ------------------------------------------------------------- AppState
\* g = [settings, orchestrator, desired_running, os, ev]: the AppState behind
\* the mutex together with the operating system it acts on and the calls
\* (Command::spawn, Child::kill, write_ports) the handler at work has made so far, in order.
World(g) == [o |-> g.orchestrator[1], os |-> g.os, ev |-> g.ev]
WithWorld(g, w) == [g EXCEPT !.orchestrator = Some(w.o), !.os = w.os, !.ev = w.ev]

\* The settings file a lazy load can find on disk; read_err (in UiInputs) tells
\* a file that cannot be read from one that is not there.
DiskInputs(g) ==
    IF g.settings = None THEN {None} \cup {Some(s) : s \in WizardSettings} ELSE {None}

\* ui_state_from_guard, first half: create the orchestrator, load the settings.
UiPrepare(g, disk) ==
    [g EXCEPT !.orchestrator = IF @ = None THEN Some(NewOrchestrator) ELSE @,
              !.settings = IF @ = None THEN disk ELSE @]

UiInputs(g) ==
    UNION { LET g1 == UiPrepare(g, d) IN
            IF g1.settings = None
            THEN {[disk |-> d, read_err |-> e, open |-> {},
                   core_poll_err |-> FALSE, seaweed_poll_err |-> FALSE] : e \in BOOLEAN}
            ELSE {[disk |-> d, read_err |-> FALSE, open |-> op,
                   core_poll_err |-> pc, seaweed_poll_err |-> ps]
                    : op \in ProbeSamples,
                      pc \in PollInputs(g1.orchestrator[1].core_child),
                      ps \in PollInputs(g1.orchestrator[1].seaweed_child)}
          : d \in DiskInputs(g) }

\* The probe's answer and the read error reach only the returned UiState: a
\* handler that is followed for its effect on the state takes them once.
UiEffectInputs(g) == {in \in UiInputs(g) : in.open = {} /\ ~in.read_err}

ui_state_from_guard(g, in) ==
    LET g1 == UiPrepare(g, in.disk)
        error == IF g.settings = None /\ in.read_err
                 THEN Some(Err("read_settings", <<>>)) ELSE None
    IN
    IF g1.settings # None /\ g1.orchestrator # None
    THEN LET ok == core_healthy(g1.settings[1], in.open)
             sn == status_snapshot(World(g1), g1.settings[1], ok, in)
         IN [g |-> WithWorld(g1, sn.w), status |-> Some(sn.status), error |-> error]
    ELSE [g |-> g1, status |-> None, error |-> error]

\* The faults an input holds.  A poll that fails in a status snapshot leaves
\* the handle where it is and is not counted.
StartFaults(in) == PollFault(in.poll_err)
UiFaults(in) == 0
TickFaults(in) == PollFault(in.poll_err) + StopFault(in.stop) + StartFaults(in.start)

\* What a handler hands back, with the path each sub-operation took.
Ret(op, ok, err, seaweed, core, tick, backoff_ms, status) ==
    [op |-> op, ok |-> ok, err |-> err, seaweed |-> seaweed, core |-> core,
     tick |-> tick, backoff_ms |-> backoff_ms, status |-> status]

\* The part of it the state keeps: the last handler, its result, the branch
\* the restart policy took and the backoff it slept.
Last(r) ==
    [op |-> r.op, ok |-> r.ok, err |-> r.err, tick |-> r.tick,
     backoff_ms |-> r.backoff_ms]

\* get_state (main.rs 151-155).
GetStateResults(g) ==
    { LET ui == ui_state_from_guard(g, in) IN
      [g |-> ui.g, faults |-> UiFaults(in),
       ret |-> Ret("get_state", TRUE, None, "-", "-", "-", 0, ui.status)]
      : in \in UiInputs(g) }

\* save_wizard_settings (main.rs 157-210): the payload is written to disk and
\* becomes the settings in memory.
SaveWizardSettingsResults(g) ==
    {[g |-> g, faults |-> 0,
      ret |-> Ret("save_wizard_settings", FALSE, Some(Err("io", <<>>)), "-", "-", "-", 0, None)]}
    \cup UNION {
        LET g1 == [g EXCEPT !.settings = Some(payload)] IN
        { LET ui == ui_state_from_guard(g1, in) IN
          [g |-> ui.g, faults |-> UiFaults(in),
           ret |-> Ret("save_wizard_settings", TRUE, None, "-", "-", "-", 0, ui.status)]
          : in \in UiEffectInputs(g1) }
      : payload \in WizardSettings }

\* start_services as it would be if the result of the auxiliary start were
\* dropped and the primary started whatever it was.
StartServicesPrimaryAnyway(g, op) ==
    IF g.settings = None \/ g.orchestrator = None
    THEN {[g |-> g, faults |-> 0,
           ret |-> Ret(op, FALSE, Some(Err("not_configured", <<>>)), "-", "-", "-", 0, None)]}
    ELSE LET s == g.settings[1] IN
    UNION {
        LET rs == start_seaweed_if_enabled(World(g), s, si) IN
        { LET rc == start_core(rs.w, s, ci) IN
          [g |-> [WithWorld(g, rc.w) EXCEPT !.desired_running = @ \/ rc.ok],
           faults |-> StartFaults(si) + StartFaults(ci),
           ret |-> Ret(op, rc.ok, rc.err, rs.path, rc.path, "-", 0, None)]
          : ci \in StartCoreInputs(rs.w) }
      : si \in StartSeaweedInputs(World(g), s) }

\* start_services as it would be if desired_running were set on entry, before
\* either start is attempted.
StartServicesWantingFirst(g0, op) ==
    LET g == IF g0.settings # None /\ g0.orchestrator # None
             THEN [g0 EXCEPT !.desired_running = TRUE] ELSE g0 IN
    IF g.settings = None
    THEN {[g |-> g, faults |-> 0,
           ret |-> Ret(op, FALSE, Some(Err("not_configured", <<>>)), "-", "-", "-", 0, None)]}
    ELSE IF g.orchestrator = None
    THEN {[g |-> g, faults |-> 0,
           ret |-> Ret(op, FALSE, Some(Err("orchestrator_missing", <<>>)), "-", "-", "-", 0, None)]}
    ELSE LET s == g.settings[1] IN
    UNION {
        LET rs == start_seaweed_if_enabled(World(g), s, si) IN
        IF ~rs.ok
        THEN {[g |-> WithWorld(g, rs.w), faults |-> StartFaults(si),
               ret |-> Ret(op, FALSE, rs.err, rs.path, "-", "-", 0, None)]}
        ELSE UNION {
            LET rc == start_core(rs.w, s, ci) IN
            IF ~rc.ok
            THEN {[g |-> WithWorld(g, rc.w), faults |-> StartFaults(si) + StartFaults(ci),
                   ret |-> Ret(op, FALSE, rc.err, rs.path, rc.path, "-", 0, None)]}
            ELSE LET g2 == [WithWorld(g, rc.w) EXCEPT !.desired_running = TRUE] IN
                 { LET ui == ui_state_from_guard(g2, ui_in) IN
                   [g |-> ui.g,
                    faults |-> StartFaults(si) + StartFaults(ci) + UiFaults(ui_in),
                    ret |-> Ret(op, TRUE, None, rs.path, rc.path, "-", 0, ui.status)]
                   : ui_in \in UiEffectInputs(g2) }
          : ci \in StartCoreInputs(rs.w) }
      : si \in StartSeaweedInputs(World(g), s) }

\* start_services (main.rs 212-229), the whole handler under one lock.
StartServicesResults(g, op) ==
    IF g.settings = None
    THEN {[g |-> g, faults |-> 0,
           ret |-> Ret(op, FALSE, Some(Err("not_configured", <<>>)), "-", "-", "-", 0, None)]}
    ELSE IF g.orchestrator = None
    THEN {[g |-> g, faults |-> 0,
           ret |-> Ret(op, FALSE, Some(Err("orchestrator_missing", <<>>)), "-", "-", "-", 0, None)]}
    ELSE LET s == g.settings[1] IN
    UNION {
        LET rs == start_seaweed_if_enabled(World(g), s, si) IN
        IF ~rs.ok
        THEN {[g |-> WithWorld(g, rs.w), faults |-> StartFaults(si),
               ret |-> Ret(op, FALSE, rs.err, rs.path, "-", "-", 0, None)]}
        ELSE UNION {
            LET rc == start_core(rs.w, s, ci) IN
            IF ~rc.ok
            THEN {[g |-> WithWorld(g, rc.w), faults |-> StartFaults(si) + StartFaults(ci),
                   ret |-> Ret(op, FALSE, rc.err, rs.path, rc.path, "-", 0, None)]}
            ELSE LET g2 == [WithWorld(g, rc.w) EXCEPT !.desired_running = TRUE] IN
                 { LET ui == ui_state_from_guard(g2, ui_in) IN
                   [g |-> ui.g,
                    faults |-> StartFaults(si) + StartFaults(ci) + UiFaults(ui_in),
                    ret |-> Ret(op, TRUE, None, rs.path, rc.path, "-", 0, ui.status)]
                   : ui_in \in UiEffectInputs(g2) }
          : ci \in StartCoreInputs(rs.w) }
      : si \in StartSeaweedInputs(World(g), s) }

\* stop_services as it would be if it stopped the auxiliary service first.
StopServicesAuxFirst(g, op) ==
    LET stopped ==
          IF g.orchestrator = None THEN {[g |-> g, faults |-> 0]}
          ELSE UNION {
                 { [g |-> WithWorld(g, stop_core(stop_seaweed(World(g), ks), kc)),
                    faults |-> StopFault(kc) + StopFault(ks)]
                   : ks \in StopInputs(g.orchestrator[1].seaweed_child, g.os.seaweed_live) }
                 : kc \in StopInputs(g.orchestrator[1].core_child, g.os.core_live) }
    IN UNION {
         LET g2 == [st.g EXCEPT !.desired_running = FALSE] IN
         { LET ui == ui_state_from_guard(g2, ui_in) IN
           [g |-> ui.g, faults |-> st.faults + UiFaults(ui_in),
            ret |-> Ret(op, TRUE, None, "-", "-", "-", 0, ui.status)]
           : ui_in \in UiEffectInputs(g2) }
         : st \in stopped }

\* stop_services (main.rs 231-243).
StopServicesResults(g, op) ==
    LET stopped ==
          IF g.orchestrator = None THEN {[g |-> g, faults |-> 0]}
          ELSE UNION {
                 { [g |-> WithWorld(g, stop_seaweed(stop_core(World(g), kc), ks)),
                    faults |-> StopFault(kc) + StopFault(ks)]
                   : ks \in StopInputs(g.orchestrator[1].seaweed_child, g.os.seaweed_live) }
                 : kc \in StopInputs(g.orchestrator[1].core_child, g.os.core_live) }
    IN UNION {
         LET g2 == [st.g EXCEPT !.desired_running = FALSE] IN
         { LET ui == ui_state_from_guard(g2, ui_in) IN
           [g |-> ui.g, faults |-> st.faults + UiFaults(ui_in),
            ret |-> Ret(op, TRUE, None, "-", "-", "-", 0, ui.status)]
           : ui_in \in UiEffectInputs(g2) }
         : st \in stopped }

\* minimize_on_exit as the exit paths read it (main.rs 276-282, 421-429).
MinimizeOnExit(g) == IF g.settings = None THEN TRUE ELSE g.settings[1].minimize_on_exit

\* An exit path that hides the window and leaves everything running
\* (main.rs 284-289, 431-433).
HideResults(g, op) ==
    {[g |-> g, faults |-> 0, ret |-> Ret(op, TRUE, None, "-", "-", "hidden", 0, None)]}

\* What an exit path does under the lock before it asks the application to
\* exit: request_ui_exit (main.rs 291-297), the tray's Exit (363-371), the
\* window's close (434-441).  desired_running is left as it is.
ExitResults(g, op) ==
    IF g.orchestrator = None
    THEN {[g |-> g, faults |-> 0, ret |-> Ret(op, TRUE, None, "-", "-", "-", 0, None)]}
    ELSE UNION {
           { [g |-> WithWorld(g, stop_seaweed(stop_core(World(g), kc), ks)),
              faults |-> StopFault(kc) + StopFault(ks),
              ret |-> Ret(op, TRUE, None, "-", "-", "-", 0, None)]
             : ks \in StopInputs(g.orchestrator[1].seaweed_child, g.os.seaweed_live) }
           : kc \in StopInputs(g.orchestrator[1].core_child, g.os.core_live) }

\* The loop as it would be if it looked at desired_running alone.
MonitorIgnoringAutoRestart(g) ==
    IF g.settings # None /\ g.orchestrator # None /\ g.desired_running
    THEN { LET r == tick_health_and_maybe_restart(World(g), g.settings[1], in) IN
           [g |-> WithWorld(g, r.w), faults |-> TickFaults(in),
            ret |-> Ret("tick", TRUE, None, "-", r.core, r.path, r.backoff_ms, None)]
           : in \in TickInputs(World(g)) }
    ELSE {[g |-> g, faults |-> 0,
           ret |-> Ret("tick", TRUE, None, "-", "-", "skipped", 0, None)]}

\* The iteration as it would be if the loop did not look at desired_running.
MonitorIgnoringDesired(g) ==
    IF g.settings # None /\ g.orchestrator # None /\ g.settings[1].auto_restart
    THEN { LET r == tick_health_and_maybe_restart(World(g), g.settings[1], in) IN
           [g |-> WithWorld(g, r.w), faults |-> TickFaults(in),
            ret |-> Ret("tick", TRUE, None, "-", r.core, r.path, r.backoff_ms, None)]
           : in \in TickInputs(World(g)) }
    ELSE {[g |-> g, faults |-> 0,
           ret |-> Ret("tick", TRUE, None, "-", "-", "skipped", 0, None)]}

\* The iteration as it would be if the loop also dropped the handle of an
\* auxiliary process that has exited.
MonitorReapingAuxiliary(g) ==
    IF g.settings # None /\ g.orchestrator # None
       /\ g.desired_running /\ g.settings[1].auto_restart
    THEN { LET r == tick_health_and_maybe_restart(
                        is_seaweed_running(World(g), FALSE).w, g.settings[1], in) IN
           [g |-> WithWorld(g, r.w), faults |-> TickFaults(in),
            ret |-> Ret("tick", TRUE, None, "-", r.core, r.path, r.backoff_ms, None)]
           : in \in TickInputs(World(g)) }
    ELSE {[g |-> g, faults |-> 0,
           ret |-> Ret("tick", TRUE, None, "-", "-", "skipped", 0, None)]}

\* One iteration of the background monitor loop (main.rs 399-413).
MonitorResults(g) ==
    IF g.settings # None /\ g.orchestrator # None
       /\ g.desired_running /\ g.settings[1].auto_restart
    THEN { LET r == tick_health_and_maybe_restart(World(g), g.settings[1], in) IN
           [g |-> WithWorld(g, r.w), faults |-> TickFaults(in),
            ret |-> Ret("tick", TRUE, None, "-", r.core, r.path, r.backoff_ms, None)]
           : in \in TickInputs(World(g)) }
    ELSE {[g |-> g, faults |-> 0,
           ret |-> Ret("tick", TRUE, None, "-", "-", "skipped", 0, None)]}

\* ----------------------------------------------------------------- actions
G == [settings |-> settings, orchestrator |-> orchestrator,
      desired_running |-> desired_running, os |-> os, ev |-> <<>>]

\* The history of the background loop (kept when monitor.counting):
\* spawns: the automatic restarts that spawned the primary since the last user
\*   command, the last tick that saw it healthy and the last restart of an
\*   unhealthy primary, that is, restarts that each followed an exit;
\* failures: the automatic start attempts that failed in a row since the last
\*   user command.
\* Both stop counting one past the cap.
UserCommands ==
    {"start_services", "stop_services", "restart_services.stop", "restart_services.start"}

Counted(n) == IF n > RestartCap THEN n ELSE n + 1

Observe(m, r) ==
    IF ~m.counting THEN m
    ELSE IF r.op \in UserCommands THEN [m EXCEPT !.spawns = 0, !.failures = 0]
    ELSE IF r.op # "tick" THEN m
    ELSE IF r.tick = "restart_ok" /\ r.core = "spawned"
    THEN [m EXCEPT !.spawns = Counted(@), !.failures = 0]
    ELSE IF r.tick = "restart_failed" THEN [m EXCEPT !.failures = Counted(@)]
    ELSE IF r.tick \in {"healthy", "fatal_restart"}
    THEN [m EXCEPT !.spawns = 0, !.failures = 0]
    ELSE m

\* The outcomes of a handler as the state records them.
Outcomes(results) ==
    {[g |-> [r.g EXCEPT !.ev = <<>>], faults |-> r.faults, ret |-> Last(r.ret),
      monitor |-> Observe(monitor, r.ret)] : r \in results}

Commit(results) ==
    \E r \in Outcomes(results) :
        /\ faults + r.faults <= MaxFaults
        /\ faults' = faults + r.faults
        /\ settings' = r.g.settings
        /\ orchestrator' = r.g.orchestrator
        /\ desired_running' = r.g.desired_running
        /\ os' = r.g.os
        /\ ret' = r.ret
        /\ monitor' = r.monitor
        /\ logs' = logs

Init ==
    /\ settings = None
    /\ orchestrator = None
    /\ desired_running = FALSE
    /\ os = NewOs
    /\ bg_pc = "tick"
    /\ restart_pc = "idle"
    /\ faults = 0
    /\ ret = Last(Ret("init", TRUE, None, "-", "-", "-", 0, None))
    /\ monitor = [counting |-> FALSE, spawns |-> 0, failures |-> 0]
    /\ logs = EmptyDir
    /\ app_pc = "running"

\* app_pc: "running" until an exit path has stopped the services and asked the
\* application to exit, "exiting" from then until the process ends, "exited"
\* after.  The user's commands are followed while it is "running", the
\* background loop and the spawned processes until it is "exited".
get_state ==
    /\ app_pc = "running"
    /\ Commit(GetStateResults(G))
    /\ UNCHANGED <<bg_pc, restart_pc, app_pc>>

save_wizard_settings ==
    /\ app_pc = "running"
    /\ Commit(SaveWizardSettingsResults(G))
    /\ UNCHANGED <<bg_pc, restart_pc, app_pc>>

start_services ==
    /\ app_pc = "running"
    /\ Commit(StartServicesResults(G, "start_services"))
    /\ UNCHANGED <<bg_pc, restart_pc, app_pc>>

stop_services ==
    /\ app_pc = "running"
    /\ Commit(StopServicesResults(G, "stop_services"))
    /\ UNCHANGED <<bg_pc, restart_pc, app_pc>>

\* restart_services (main.rs 245-252): stop_services, then start_services, each
\* under its own acquisition of the lock.
restart_services_stop ==
    /\ app_pc = "running"
    /\ restart_pc = "idle"
    /\ Commit(StopServicesResults(G, "restart_services.stop"))
    /\ restart_pc' = "stopped"
    /\ UNCHANGED <<bg_pc, app_pc>>

restart_services_start ==
    /\ app_pc = "running"
    /\ restart_pc = "stopped"
    /\ Commit(StartServicesResults(G, "restart_services.start"))
    /\ restart_pc' = "idle"
    /\ UNCHANGED <<bg_pc, app_pc>>

\* request_ui_exit (main.rs 271-301).
request_ui_exit ==
    /\ app_pc = "running"
    /\ IF MinimizeOnExit(G)
       THEN Commit(HideResults(G, "request_ui_exit")) /\ app_pc' = app_pc
       ELSE Commit(ExitResults(G, "request_ui_exit")) /\ app_pc' = "exiting"
    /\ UNCHANGED <<bg_pc, restart_pc>>

\* The Exit entry of the tray menu (main.rs 362-373).
tray_exit ==
    /\ app_pc = "running"
    /\ Commit(ExitResults(G, "tray_exit"))
    /\ app_pc' = "exiting"
    /\ UNCHANGED <<bg_pc, restart_pc>>

\* WindowEvent::CloseRequested (main.rs 419-445).
window_close ==
    /\ app_pc = "running"
    /\ IF MinimizeOnExit(G)
       THEN Commit(HideResults(G, "window_close")) /\ app_pc' = app_pc
       ELSE Commit(ExitResults(G, "window_close")) /\ app_pc' = "exiting"
    /\ UNCHANGED <<bg_pc, restart_pc>>

\* The exit that app.exit(0) asked for takes place: the process ends and the
\* background thread with it; the spawned processes stay as they are.
app_exit ==
    /\ app_pc = "exiting"
    /\ app_pc' = "exited"
    /\ ret' = Last(Ret("exit", TRUE, None, "-", "-", "-", 0, None))
    /\ UNCHANGED <<settings, orchestrator, desired_running, os, bg_pc, restart_pc, faults,
                   monitor, logs>>

monitor_tick ==
    /\ app_pc # "exited"
    /\ bg_pc = "tick"
    /\ Commit(MonitorResults(G))
    /\ bg_pc' = "sleep"
    /\ UNCHANGED <<restart_pc, app_pc>>

monitor_sleep ==
    /\ app_pc # "exited"
    /\ bg_pc = "sleep"
    /\ IF orchestrator = None THEN orchestrator' = None
       ELSE \E sl \in AfterSleep(orchestrator[1], TickSleepMs) :
              orchestrator' = Some([orchestrator[1] EXCEPT !.last_core_start = sl])
    /\ bg_pc' = "tick"
    /\ ret' = Last(Ret("sleep", TRUE, None, "-", "-", "-", 0, None))
    /\ UNCHANGED <<settings, desired_running, os, restart_pc, faults, monitor, logs, app_pc>>

\* A spawned process exits on its own.
core_exits ==
    /\ app_pc # "exited"
    /\ \E pid \in os.core_live : os' = [os EXCEPT !.core_live = @ \ {pid}]
    /\ ret' = Last(Ret("core_exits", TRUE, None, "-", "-", "-", 0, None))
    /\ UNCHANGED <<settings, orchestrator, desired_running, bg_pc, restart_pc, faults, monitor,
                   logs, app_pc>>

seaweed_exits ==
    /\ app_pc # "exited"
    /\ \E pid \in os.seaweed_live : os' = [os EXCEPT !.seaweed_live = @ \ {pid}]
    /\ ret' = Last(Ret("seaweed_exits", TRUE, None, "-", "-", "-", 0, None))
    /\ UNCHANGED <<settings, orchestrator, desired_running, bg_pc, restart_pc, faults, monitor,
                   logs, app_pc>>

Next ==
    \/ get_state
    \/ save_wizard_settings
    \/ start_services
    \/ stop_services
    \/ restart_services_stop
    \/ restart_services_start
    \/ request_ui_exit
    \/ tray_exit
    \/ window_close
    \/ app_exit
    \/ monitor_tick
    \/ monitor_sleep
    \/ core_exits
    \/ seaweed_exits

Spec == Init /\ [][Next]_vars

\* The background loop on its own: the wizard has saved a configuration with
\* the auxiliary service off and automatic restart on, the user starts and
\* stops the services, the primary exits when it likes, and the history of the
\* loop is kept.
InitPolicy ==
    /\ settings = Some(Settings(FALSE, TRUE, FALSE))
    /\ orchestrator = Some(NewOrchestrator)
    /\ desired_running = FALSE
    /\ os = NewOs
    /\ bg_pc = "tick"
    /\ restart_pc = "idle"
    /\ faults = 0
    /\ ret = Last(Ret("save_wizard_settings", TRUE, None, "-", "-", "-", 0, None))
    /\ monitor = [counting |-> TRUE, spawns |-> 0, failures |-> 0]
    /\ logs = EmptyDir
    /\ app_pc = "running"

NextPolicy ==
    \/ start_services
    \/ stop_services
    \/ monitor_tick
    \/ monitor_sleep
    \/ core_exits

SpecPolicy == InitPolicy /\ [][NextPolicy]_vars

\* The log directory on its own: one log file that its process appends to and
\* that every start prepares, under any configured size and any answer of the
\* file system.  (Spec follows a start no further into the log directory than
\* whether prepare_log_file returned Ok.)
prepare_log ==
    /\ \E mb \in LogSizes, in \in AllLogInputs :
          LET r == prepare_log_file(logs, CoreLog, mb, in) IN
          /\ logs' = r.dir
          /\ ret' = Last(Ret("prepare_log_file", r.ok, None, "-", "-", "-", 0, None))
    /\ UNCHANGED <<settings, orchestrator, desired_running, os, bg_pc, restart_pc, faults,
                   monitor, app_pc>>

log_grows ==
    /\ CoreLog \in DOMAIN logs
    /\ Len(logs[CoreLog]) < MaxChunks
    /\ \E c \in Chunks : logs' = [logs EXCEPT ![CoreLog] = Append(@, c)]
    /\ ret' = Last(Ret("log_grows", TRUE, None, "-", "-", "-", 0, None))
    /\ UNCHANGED <<settings, orchestrator, desired_running, os, bg_pc, restart_pc, faults,
                   monitor, app_pc>>

NextLog ==
    \/ prepare_log
    \/ log_grows

SpecLog == Init /\ [][NextLog]_vars

\* ============================================================= properties
\* Every input a start of the primary can meet, whatever the state.
AllStartCoreInputs == [poll_err : BOOLEAN, outcome : CoreFails \cup {"spawn"}]

CoreAlive(w) == w.o.core_child # None /\ w.o.core_child[1].pid \in w.os.core_live
SeaweedAlive(w) == w.o.seaweed_child # None /\ w.o.seaweed_child[1].pid \in w.os.seaweed_live

Ready == orchestrator # None /\ settings # None

\* C1: in every reachable state each slot (primary, auxiliary) has at most one
\* live process that the orchestrator spawned and that has not terminated.
AtMostOneLiveProcessPerSlot ==
    /\ Cardinality(os.core_live) <= 1
    /\ Cardinality(os.seaweed_live) <= 1

\* C2: a start of a slot whose process is alive returns success and changes
\* nothing: the handle, the live processes, the restart counter, the last-start
\* timestamp, the last auxiliary error and the ports file stay as they are,
\* whatever the liveness poll and the environment answer.
StartOfLiveSlotChangesNothing ==
    Ready =>
        LET w == World(G)
            s == settings[1]
        IN /\ CoreAlive(w) =>
                \A in \in AllStartCoreInputs :
                    start_core(w, s, in).ok /\ start_core(w, s, in).w = w
           /\ (SeaweedAlive(w) /\ s.seaweed_enabled) =>
                \A p \in BOOLEAN :
                    LET r == start_seaweed_if_enabled(w, s, SeaweedDefault(p))
                    IN r.ok /\ r.w = w

\* C3: when stop_core or stop_seaweed returns the slot holds no handle, whether
\* the kill and the wait succeeded or not, and a stop reports no error.
StopLeavesSlotAbsent ==
    /\ orchestrator # None =>
          \A in \in AllStopInputs :
              /\ stop_core(World(G), in).o.core_child = None
              /\ stop_seaweed(World(G), in).o.seaweed_child = None
    /\ ret.op \in {"stop_services", "restart_services.stop"} =>
          /\ ret.ok
          /\ orchestrator # None
          /\ orchestrator[1].core_child = None
          /\ orchestrator[1].seaweed_child = None

\* C3 witness: stop_services has returned, the primary slot is empty and a
\* primary process is still alive behind it.
StopReturnedOverLiveProcess ==
    /\ ret.op = "stop_services"
    /\ ret.ok
    /\ orchestrator # None
    /\ orchestrator[1].core_child = None
    /\ os.core_live # {}

\* C4: stopping a slot that holds no handle changes nothing, and stop_services
\* over two empty slots succeeds, leaves the orchestrator and the processes as
\* they are and sets desired_running to false.
StopOfEmptySlotChangesNothing ==
    [][ /\ (orchestrator # None /\ orchestrator[1].core_child = None) =>
              \A in \in AllStopInputs : stop_core(World(G), in) = World(G)
        /\ (orchestrator # None /\ orchestrator[1].seaweed_child = None) =>
              \A in \in AllStopInputs : stop_seaweed(World(G), in) = World(G)
        /\ ( /\ ret'.op = "stop_services"
             /\ orchestrator # None
             /\ orchestrator[1].core_child = None
             /\ orchestrator[1].seaweed_child = None ) =>
              /\ ret'.ok
              /\ orchestrator' = orchestrator
              /\ os' = os
              /\ desired_running' = FALSE
      ]_vars

\* C4 witness: stop_services has returned in a run where neither slot ever held
\* a handle that lasted (no primary start got as far as the ports file, every
\* auxiliary start failed), and the recorded auxiliary error is still there.
StoppedWithNothingRunning ==
    /\ ret.op = "stop_services"
    /\ ret.ok
    /\ orchestrator # None
    /\ orchestrator[1].last_seaweed_error # None
    /\ os.ports_file = None
    /\ ~desired_running

\* C5: the automatic restarts that spawn the primary, each after an exit, with
\* no healthy tick and no user command between them, are at most the cap.
AutomaticSpawnsStopAtCap ==
    monitor.counting => monitor.spawns <= RestartCap

\* C6: the automatic start attempts that fail in a row, with no user command
\* between them, are at most the cap.
FailedAttemptsStopAtCap ==
    monitor.counting => monitor.failures <= RestartCap

\* The tick is let through to the policy.
Wanted ==
    /\ settings # None
    /\ orchestrator # None
    /\ desired_running
    /\ settings[1].auto_restart

TickRunsPolicyOnlyWhenWanted ==
    [][ /\ ret'.op = "tick" =>
              IF Wanted
              THEN ret'.tick # "skipped"
              ELSE ret'.tick = "skipped" /\ orchestrator' = orchestrator /\ os' = os
        /\ ( /\ ~desired_running
             /\ ret'.op \notin {"start_services", "restart_services.start"}
             /\ orchestrator' # None ) =>
              orchestrator'[1].core_child = None
        /\ ret'.op \in {"stop_services", "restart_services.stop"} =>
              ~desired_running' /\ orchestrator'[1].core_child = None
      ]_vars

\* C8 witness: with auto_restart off and desired_running on, a tick has passed
\* over a primary that exited and has left its handle where it was.
TickSkippedOverExitedPrimary ==
    /\ ret.op = "tick"
    /\ ret.tick = "skipped"
    /\ desired_running
    /\ settings # None
    /\ ~settings[1].auto_restart
    /\ orchestrator # None
    /\ orchestrator[1].core_child # None
    /\ os.core_live = {}

\* The name:port pairs of the ports in `open`.
Conflicting(s3_port, open) ==
    {np \in {SeaweedPorts(s3_port)[i] : i \in 1..Len(SeaweedPorts(s3_port))} : np[2] \in open}

\* C9: when the auxiliary start reaches the preflight (the service is enabled,
\* not found running, its binary found) and one of its four ports is open, it
\* returns the port-conflict error naming every conflicting pair, spawns
\* nothing and leaves the slot without a handle.
PortConflictFailsWithSlotAbsent ==
    (Ready /\ settings[1].seaweed_enabled) =>
        \A p \in PollInputs(orchestrator[1].seaweed_child), open \in PortSets \ {{}},
           exists \in FsSamples \ {{}} :
            LET w == World(G)
                s == settings[1]
                in == [SeaweedDefault(p) EXCEPT !.exists = exists, !.open = open]
                r == start_seaweed_if_enabled(w, s, in)
            IN ~is_seaweed_running(w, p).r =>
                 /\ ~r.ok
                 /\ r.err # None
                 /\ r.err[1].kind = "port_conflict"
                 /\ {r.err[1].detail[i] : i \in 1..Len(r.err[1].detail)}
                      = Conflicting(s.seaweed_s3_port[1], open)
                 /\ r.w.os.seaweed_live = os.seaweed_live
                 /\ r.w.o.seaweed_child = None

\* The ways an auxiliary start fails.
SeaweedFailPaths ==
    {"not_found", "invalid_exe", "no_s3_port", "io_failed", "port_conflict",
     "spawn_failed", "exited_early"}

\* C10 as claimed: a start_services call whose auxiliary start fails still
\* attempts the start of the primary.
AuxFailureDoesNotBlockPrimary ==
    Ready =>
        \A r \in StartServicesResults(G, "start_services") :
            r.ret.seaweed \in SeaweedFailPaths => r.ret.core # "-"

\* C10 as amended: a start_services call whose auxiliary start fails returns
\* that failure, the one it records as the last auxiliary error, without
\* attempting the primary: the primary slot, its processes, the restart state,
\* the ports file and desired_running stay as they were.
AuxFailureBlocksPrimary ==
    Ready =>
        \A r \in StartServicesResults(G, "start_services") :
            r.ret.seaweed \in SeaweedFailPaths =>
                /\ r.ret.core = "-"
                /\ ~r.ret.ok
                /\ r.ret.err # None
                /\ r.ret.err = r.g.orchestrator[1].last_seaweed_error
                /\ r.g.orchestrator[1].core_child = orchestrator[1].core_child
                /\ r.g.orchestrator[1].last_core_start = orchestrator[1].last_core_start
                /\ r.g.orchestrator[1].core_restart_attempts
                     = orchestrator[1].core_restart_attempts
                /\ r.g.os.core_live = os.core_live
                /\ r.g.os.ports_file = os.ports_file
                /\ r.g.desired_running = desired_running

\* C10 witness: start_services has returned the binary-not-found failure of
\* the auxiliary service and no primary was ever started.
StartFailedAtAuxiliary ==
    /\ ret.op = "start_services"
    /\ ~ret.ok
    /\ ret.err # None
    /\ ret.err[1].kind = "weed_not_found"
    /\ os.core_live = {}
    /\ os.ports_file = None

\* C11: with the auxiliary service disabled in the settings, a start_services
\* call that succeeds spawns no auxiliary process, and the status it returns
\* has seaweed_enabled false, seaweed_running false and core_running true
\* whenever the handle in the primary slot is that of a live process.
DisabledAuxStartsPrimaryOnly ==
    (Ready /\ ~settings[1].seaweed_enabled) =>
        \A r \in StartServicesResults(G, "start_services") :
            r.ret.ok =>
                /\ r.ret.seaweed = "disabled"
                /\ r.g.os.seaweed_live \subseteq os.seaweed_live
                /\ r.ret.status # None
                /\ ~r.ret.status[1].seaweed_enabled
                /\ ~r.ret.status[1].seaweed_running
                /\ CoreAlive(World(r.g)) => r.ret.status[1].core_running

\* Every set of listeners a probe may meet: on the core port, on other ports,
\* on none.
AllProbes == SUBSET {CorePort, S3Port}

\* C12: the health a status snapshot reports and the health the tick acts on
\* are both the answer of the loopback core port: healthy when something
\* accepts a connection there, unhealthy when nothing does, whether the primary
\* slot holds a handle or not and whether its process is alive or not.
HealthIsThePortProbe ==
    Ready =>
        LET s == settings[1] IN
        \A open \in AllProbes :
            /\ \A in \in UiInputs(G) :
                  LET ui == ui_state_from_guard(G, [in EXCEPT !.open = open]) IN
                  /\ ui.status # None
                  /\ ui.status[1].core_healthy = (s.core_port \in open)
            /\ \A in \in TickInputs(World(G)) :
                  LET rc == is_core_running(World(G), in.poll_err)
                      r == tick_health_and_maybe_restart(World(G), s, [in EXCEPT !.open = open])
                  IN (rc.r /\ ~InGrace(rc.w)) =>
                        ((r.path = "healthy") <=> (s.core_port \in open))

\* C12 witness: get_state has returned while the primary slot is empty and no
\* primary process is alive, and a listener on the core port makes its status
\* healthy with core_running false.
HealthyWithoutPrimary ==
    /\ ret.op = "get_state"
    /\ Ready
    /\ orchestrator[1].core_child = None
    /\ os.core_live = {}
    /\ \E r \in GetStateResults(G) :
          /\ r.ret.status # None
          /\ r.ret.status[1].core_healthy
          /\ ~r.ret.status[1].core_running

\* The files of the directory that carry the stem of `log` without being it.
Backups(dir, log) == {p \in DOMAIN dir : p[1] = log[1] /\ p # log}

\* C13: a prepare_log_file that returns Ok over a log larger than
\* max(configured megabytes, 1) MiB leaves one backup that holds what the log
\* held and an empty log; over a log at or below that size it leaves the
\* directory as it is; and no directory ever holds more than one backup of the
\* log.
LogRotationKeepsOneBackup ==
    /\ Cardinality(Backups(logs, CoreLog)) <= 1
    /\ \A mb \in LogSizes, in \in AllLogInputs :
          LET r == prepare_log_file(logs, CoreLog, mb, in)
              rotated == with_extension(CoreLog, "log.1")
          IN (r.ok /\ CoreLog \in DOMAIN logs) =>
                IF FileLen(logs[CoreLog]) > Max(mb, 1) * MiB
                THEN /\ Backups(r.dir, CoreLog) = {rotated}
                     /\ r.dir[rotated] = logs[CoreLog]
                     /\ r.dir[CoreLog] = <<>>
                ELSE r.dir = logs

\* The ways an auxiliary start succeeds once the service is enabled.
SeaweedOkPaths == {"already_running", "ready", "timeout", "exited_unseen"}

\* C14: last_seaweed_error is what the status snapshot reports; an auxiliary
\* start that fails records its error there, the next start of the enabled
\* auxiliary that returns success leaves None there, a start under settings
\* that disable the auxiliary attempts nothing and leaves it as it is, and
\* stop_services, the tick and the status queries never change it.
AuxErrorLastsUntilNextGoodStart ==
    Ready =>
        LET e == orchestrator[1].last_seaweed_error IN
        /\ \A r \in StartServicesResults(G, "start_services") :
              LET e1 == r.g.orchestrator[1].last_seaweed_error IN
              /\ r.ret.seaweed \in SeaweedFailPaths => (e1 # None /\ e1 = r.ret.err)
              /\ r.ret.seaweed \in SeaweedOkPaths => e1 = None
              /\ r.ret.seaweed = "disabled" => e1 = e
              /\ r.ret.status # None => r.ret.status[1].seaweed_last_error = e1
        /\ \A r \in GetStateResults(G) \cup StopServicesResults(G, "stop_services")
                     \cup MonitorResults(G) :
              /\ r.g.orchestrator[1].last_seaweed_error = e
              /\ r.ret.status # None => r.ret.status[1].seaweed_last_error = e

\* The errors a start of the primary returns.
CoreErrKinds == {"write_ports", "core_not_found", "io", "core_spawn"}

\* C15: a start of the primary that fails inside the background tick is
\* returned to no caller, and the UiState built next carries it in an error
\* field (its own, or the one of its status snapshot).
TickStartFailureShowsInStatus ==
    Ready =>
        \A r \in MonitorResults(G) :
            r.ret.tick = "restart_failed" =>
                /\ r.ret.ok
                /\ r.ret.err = None
                /\ \A in \in UiInputs(r.g) :
                      LET ui == ui_state_from_guard(r.g, in) IN
                      \/ ui.error # None /\ ui.error[1].kind \in CoreErrKinds
                      \/ /\ ui.status # None
                         /\ ui.status[1].seaweed_last_error # None
                         /\ ui.status[1].seaweed_last_error[1].kind \in CoreErrKinds

\* No call `later` is made before a call `earlier` in the calls ev.
NeverBefore(ev, later, earlier) ==
    \A i, j \in 1..Len(ev) : (ev[i] = later /\ ev[j] = earlier) => j < i

\* C16: a start_services call spawns no primary before its auxiliary spawn and
\* goes on to the primary only once the start of the enabled auxiliary has
\* returned success; stop_services and the three exit paths kill the primary
\* before the auxiliary, and over two handles they make exactly those two
\* calls in that order.
AuxiliaryStartsFirstPrimaryStopsFirst ==
    Ready =>
        /\ \A r \in StartServicesResults(G, "start_services") :
              /\ NeverBefore(r.g.ev, <<"spawn", "core">>, <<"spawn", "seaweed">>)
              /\ (settings[1].seaweed_enabled /\ r.ret.core # "-") =>
                    r.ret.seaweed \in SeaweedOkPaths
        /\ \A r \in StopServicesResults(G, "stop_services")
                     \cup ExitResults(G, "request_ui_exit")
                     \cup ExitResults(G, "tray_exit")
                     \cup ExitResults(G, "window_close") :
              /\ NeverBefore(r.g.ev, <<"kill", "seaweed">>, <<"kill", "core">>)
              /\ (orchestrator[1].core_child # None /\ orchestrator[1].seaweed_child # None) =>
                    r.g.ev = << <<"kill", "core">>, <<"kill", "seaweed">> >>

\* C16 witness: start_services has returned success with both services alive
\* in their slots, the auxiliary spawned ahead of the primary, and a stop from
\* here kills the primary and then the auxiliary.
BothStartedThenStoppedInOrder ==
    /\ ret.op = "start_services"
    /\ ret.ok
    /\ Ready
    /\ settings[1].seaweed_enabled
    /\ CoreAlive(World(G))
    /\ SeaweedAlive(World(G))
    /\ \E r \in StopServicesResults(G, "stop_services") :
          r.g.ev = << <<"kill", "core">>, <<"kill", "seaweed">> >>

\* C18: once an exit path has stopped the services and asked the application
\* to exit, no primary process is spawned any more.
NoPrimarySpawnAfterExitStop ==
    [][app_pc = "exiting" => os'.core_live \subseteq os.core_live]_vars

\* The paths whose existence an auxiliary resolution that finds nothing has
\* tested: the configured explicit path, then every candidate.
WeedPathsChecked(s) ==
    (IF s.seaweed_weed_path # None THEN <<s.seaweed_weed_path[1]>> ELSE <<>>)
    \o ToolsCandidates(1)

Range(seq) == {seq[i] : i \in 1..Len(seq)}

\* C17: a not-found error of a binary resolution lists every path that was
\* checked: for the auxiliary service also a configured explicit path that is
\* not on disk, for the primary every sidecar candidate.
NotFoundErrorListsEveryPathChecked ==
    Ready =>
        /\ \A explicit \in {None, Some(ExplicitWeed)} :
              LET s == [settings[1] EXCEPT !.seaweed_enabled = TRUE,
                                           !.seaweed_s3_port = Some(S3Port),
                                           !.seaweed_weed_path = explicit]
                  r == StartSeaweedClosure(World(G), s, SeaweedDefault(FALSE))
              IN /\ r.path = "not_found"
                 /\ Range(WeedPathsChecked(s)) \subseteq Range(r.err[1].detail)
        /\ \A in \in AllStartCoreInputs :
              LET r == start_core(World(G), settings[1], in) IN
              r.path = "not_found" =>
                  Range(core_sidecar_candidates({})) \subseteq Range(r.err[1].detail)

\* C19: a tick that finds the primary slot without a running process (empty,
\* or emptied by the poll) at a restart counter c below the cap leaves the
\* counter at c + 1 when its start succeeds and at c when its start fails.
TickCountsItsRestart ==
    Wanted =>
        LET c == orchestrator[1].core_restart_attempts IN
        \A in \in TickInputs(World(G)) :
            LET rc == is_core_running(World(G), in.poll_err)
                r == tick_health_and_maybe_restart(World(G), settings[1], in)
            IN (~rc.r /\ rc.w.o.core_child = None /\ c < RestartCap) =>
                  /\ r.path \in {"restart_ok", "restart_failed"}
                  /\ r.path = "restart_ok" => r.w.o.core_restart_attempts = c + 1
                  /\ r.path = "restart_failed" => r.w.o.core_restart_attempts = c

\* C20: a tick over a primary that is alive in its slot and was started less
\* than GraceMs ago takes the grace branch whatever listens on the core port
\* (it does not probe), calls neither Child::kill nor Command::spawn, and
\* leaves the orchestrator (the restart counter and the last-start timestamp
\* with it) and the processes as they are.
GraceTickChangesNothing ==
    Wanted =>
        LET w == World(G) IN
        (CoreAlive(w) /\ InGrace(w)) =>
            \A in \in TickInputs(w), open \in AllProbes :
                LET r == tick_health_and_maybe_restart(w, settings[1], [in EXCEPT !.open = open])
                IN /\ r.path = "grace"
                   /\ r.w.ev = <<>>
                   /\ r.w.o = w.o
                   /\ r.w.os = w.os

\* Ages past the grace period, on both sides of the fatal threshold.
AgesPastGrace == {GraceMs, FatalMs, FatalMs + 1}

\* C21: a tick that finds the primary alive, past the grace period, and whose
\* probe of the core port succeeds sets the restart counter to zero and
\* changes nothing else: the handle, the last-start timestamp, the processes
\* stay as they are and no process is killed or spawned.  Checked for every
\* counter value and every age past the grace period, and on the ticks of the
\* background loop.
HealthyTickResetsCounterOnly ==
    Wanted =>
        /\ \A a \in AgesPastGrace, n \in 0..RestartCap :
              LET w == [World(G) EXCEPT !.o.last_core_start = Some(a),
                                        !.o.core_restart_attempts = n]
              IN CoreAlive(w) =>
                    \A open \in AllProbes :
                        settings[1].core_port \in open =>
                            LET r == tick_health_and_maybe_restart(
                                         w, settings[1], [TickDefault(FALSE) EXCEPT !.open = open])
                            IN /\ r.path = "healthy"
                               /\ r.w = [w EXCEPT !.o.core_restart_attempts = 0]
        /\ \A r \in MonitorResults(G) :
              r.ret.tick = "healthy" =>
                  /\ CoreAlive(World(G))
                  /\ r.g = [G EXCEPT !.orchestrator = Some([orchestrator[1] EXCEPT
                                                              !.core_restart_attempts = 0])]

\* C21 witness: the primary restarted by the loop (counter 1) is alive and past
\* the grace period, and a tick from here finds it healthy and leaves the
\* counter at zero.
HealthyTickAfterRestart ==
    /\ Wanted
    /\ CoreAlive(World(G))
    /\ ~InGrace(World(G))
    /\ orchestrator[1].core_restart_attempts = 1
    /\ \E r \in MonitorResults(G) :
          r.ret.tick = "healthy" /\ r.g.orchestrator[1].core_restart_attempts = 0

\* C22: a tick that finds the primary alive, past the grace period, and whose
\* probe of the core port fails changes nothing while the time since the last
\* start is at most FatalMs; past FatalMs it kills the primary, attempts one
\* start, and leaves the restart counter at 1 and the last-start timestamp
\* refreshed whether that start spawned a process or failed and left the slot
\* empty.
UnhealthyTickRestartsOncePastFatal ==
    Wanted =>
        \A a \in AgesPastGrace, n \in {0, RestartCap} :
            LET w == [World(G) EXCEPT !.o.last_core_start = Some(a),
                                      !.o.core_restart_attempts = n]
            IN CoreAlive(w) =>
                  \A open \in AllProbes, st \in AllStopInputs, si \in AllStartCoreInputs :
                      (settings[1].core_port \notin open /\ ~si.poll_err) =>
                          LET r == tick_health_and_maybe_restart(
                                       w, settings[1],
                                       [TickDefault(FALSE) EXCEPT !.open = open, !.stop = st,
                                                                  !.start = si])
                              spawns == SelectSeq(r.w.ev, LAMBDA e : e[1] = "spawn")
                          IN IF a <= FatalMs
                             THEN r.path = "unhealthy" /\ r.w = w
                             ELSE /\ r.path = "fatal_restart"
                                  /\ r.w.ev # <<>>
                                  /\ Head(r.w.ev) = <<"kill", "core">>
                                  /\ Len(SelectSeq(r.w.ev, LAMBDA e : e[1] = "kill")) = 1
                                  /\ Len(spawns) <= 1
                                  /\ r.core # "-"
                                  /\ r.w.o.core_restart_attempts = 1
                                  /\ r.w.o.last_core_start = Some(InstantNow)
                                  /\ r.core # "spawned" => r.w.o.core_child = None
                                  /\ r.core = "spawned" => CoreAlive(r.w)

\* C22 witness: a tick has given up on an unhealthy primary past the fatal
\* threshold, its start failed, and the slot is empty with the counter at 1 and
\* the timestamp refreshed.
FatalRestartFailedAndCounted ==
    /\ ret.op = "tick"
    /\ ret.tick = "fatal_restart"
    /\ orchestrator[1].core_child = None
    /\ orchestrator[1].core_restart_attempts = 1
    /\ orchestrator[1].last_core_start = Some(InstantNow)

\* C23: the liveness check of a slot answers true and changes nothing when the
\* process of the handle runs, answers false and empties the slot when it has
\* exited, answers false when the poll fails and when the slot is empty; it
\* changes nothing but that slot: it sleeps no time, kills and spawns no
\* process.
LivenessCheckIsAPoll ==
    Ready =>
        LET w == World(G) IN
        \A p \in BOOLEAN :
            LET rc == is_core_running(w, p)
                rs == is_seaweed_running(w, p)
            IN /\ rc.w.os = w.os /\ rc.w.ev = w.ev
               /\ rs.w.os = w.os /\ rs.w.ev = w.ev
               /\ rc.w.o = [w.o EXCEPT !.core_child = rc.w.o.core_child]
               /\ rs.w.o = [w.o EXCEPT !.seaweed_child = rs.w.o.seaweed_child]
               /\ w.o.core_child = None => (~rc.r /\ rc.w = w)
               /\ w.o.seaweed_child = None => (~rs.r /\ rs.w = w)
               /\ (w.o.core_child # None /\ p) => ~rc.r
               /\ (w.o.seaweed_child # None /\ p) => ~rs.r
               /\ (CoreAlive(w) /\ ~p) => (rc.r /\ rc.w = w)
               /\ (SeaweedAlive(w) /\ ~p) => (rs.r /\ rs.w = w)
               /\ (w.o.core_child # None /\ ~CoreAlive(w) /\ ~p) =>
                     (~rc.r /\ rc.w.o.core_child = None)
               /\ (w.o.seaweed_child # None /\ ~SeaweedAlive(w) /\ ~p) =>
                     (~rs.r /\ rs.w.o.seaweed_child = None)

\* C23 witness: the primary has exited with its handle still in the slot, and
\* the status query that polls it next answers core_running false and leaves
\* the slot empty.
ExitedPrimaryAboutToBePolled ==
    /\ ret.op = "core_exits"
    /\ Ready
    /\ orchestrator[1].core_child # None
    /\ ~CoreAlive(World(G))
    /\ \E r \in GetStateResults(G) :
          /\ r.ret.status # None
          /\ ~r.ret.status[1].core_running
          /\ r.g.orchestrator[1].core_child = None

\* C24: a start_core that spawns the primary has first written the ports file,
\* which then holds the core port and the S3 port (or none) of the settings the
\* start was given; a start_core whose write fails spawns nothing and leaves
\* the slot and the processes as the liveness check left them, an empty slot
\* empty.  So for every start_services and every tick: a spawn of the primary
\* among its calls comes after a write of the ports file.
PortsWrittenBeforePrimarySpawn ==
    Ready =>
        LET w == World(G)
            s == settings[1]
        IN
        /\ \A in \in AllStartCoreInputs :
              LET rc == is_core_running(w, in.poll_err)
                  r == start_core(w, s, in)
              IN /\ r.path = "spawned" =>
                       /\ r.w.ev = << <<"write", "ports">>, <<"spawn", "core">> >>
                       /\ r.w.os.ports_file
                            = Some([core |-> Some(s.core_port), seaweed_s3 |-> s.seaweed_s3_port])
                 /\ r.path = "write_ports_failed" =>
                       /\ ~r.ok
                       /\ r.w.ev = <<>>
                       /\ r.w.os.core_live = w.os.core_live
                       /\ r.w.o.core_child = rc.w.o.core_child
                       /\ w.o.core_child = None => r.w.o.core_child = None
        /\ \A r \in StartServicesResults(G, "start_services") \cup MonitorResults(G) :
              \A i \in 1..Len(r.g.ev) :
                  r.g.ev[i] = <<"spawn", "core">> =>
                      /\ i > 1
                      /\ r.g.ev[i - 1] = <<"write", "ports">>
                      /\ r.g.os.ports_file
                           = Some([core |-> Some(s.core_port), seaweed_s3 |-> s.seaweed_s3_port])

\* C24 witness: the background loop has restarted the primary of a
\* configuration with the auxiliary service on, and the ports file holds both
\* ports.
LoopSpawnedOverWrittenPorts ==
    /\ ret.op = "tick"
    /\ ret.tick = "restart_ok"
    /\ Ready
    /\ settings[1].seaweed_enabled
    /\ CoreAlive(World(G))
    /\ orchestrator[1].last_core_start = Some(InstantNow)
    /\ os.ports_file = Some([core |-> Some(CorePort), seaweed_s3 |-> Some(S3Port)])

\* The order of resolution as claimed: the explicit path, the binaries of the
\* three tools directories, then the override in the managed home directory.
ClaimedWeedOrder(s) ==
    (IF s.seaweed_weed_path # None THEN <<s.seaweed_weed_path[1]>> ELSE <<>>)
    \o << Join(ToolsDirs[1], "weed.exe"), Join(ToolsDirs[1], "weed"),
          Join(ToolsDirs[2], "weed.exe"), Join(ToolsDirs[2], "weed"),
          Join(ToolsDirs[3], "weed.exe"), Join(ToolsDirs[3], "weed"),
          Join(HomeToolsDir, "weed.exe") >>

\* The disks the resolution is tried on.
WeedDisks ==
    SUBSET {ExplicitWeed, Join(ToolsDirs[1], "weed"), Join(ToolsDirs[2], "weed.exe"),
            Join(ToolsDirs[3], "weed"), Join(HomeToolsDir, "weed.exe")}

\* C25: resolve_weed_path returns the first existing path in the order
\* explicit path, tools directories, home override (so a binary in any tools
\* directory wins over one in the home override), and nothing when none of
\* them exists.
WeedResolutionFollowsClaimedOrder ==
    Ready =>
        \A explicit \in {None, Some(ExplicitWeed)}, exists \in WeedDisks :
            LET s == [settings[1] EXCEPT !.seaweed_weed_path = explicit] IN
            resolve_weed_path(s, exists) = FirstExisting(ClaimedWeedOrder(s), exists)

\* C26: a start of the auxiliary service whose child exits during the
\* readiness window, the S3 port never answering, returns an error, leaves the
\* slot empty and records the error as the last auxiliary error.
EarlyExitOfAuxiliaryIsAnError ==
    (Ready /\ settings[1].seaweed_enabled) =>
        \A in \in StartSeaweedInputs(World(G), settings[1]) :
            LET r == start_seaweed_if_enabled(World(G), settings[1], in) IN
            r.path \in {"exited_early", "exited_unseen"} =>
                /\ ~r.ok
                /\ r.err # None
                /\ r.w.o.seaweed_child = None
                /\ r.w.o.last_seaweed_error = r.err

\* The last-start timestamp `after` is the timestamp `before` that nothing
\* wrote to: absent as before, or the same instant seen later.
NotRewritten(before, after) ==
    IF before = None THEN after = None
    ELSE after # None /\ after[1] >= before[1]

\* C27 (as stated): no foreground operation (start, stop, restart, status
\* query) changes the restart counter or the last-start timestamp.  A restart
\* is the stop and the start below, one after the other.
ForegroundNeverWritesRestartState ==
    Ready =>
        \A r \in StartServicesResults(G, "start_services")
                    \cup StopServicesResults(G, "stop_services") \cup GetStateResults(G) :
            LET o1 == r.g.orchestrator[1] IN
            /\ o1.core_restart_attempts = orchestrator[1].core_restart_attempts
            /\ NotRewritten(orchestrator[1].last_core_start, o1.last_core_start)

\* C27 (amended): a stop and a status query never change the restart counter
\* or the last-start timestamp; a start (alone or as the second half of a
\* restart) changes them exactly when it spawns the primary process, setting
\* the counter to 0 and the timestamp to the instant of the spawn.
ForegroundWritesRestartStateOnlyBySpawn ==
    Ready =>
        /\ \A r \in StopServicesResults(G, "stop_services") \cup GetStateResults(G) :
               LET o1 == r.g.orchestrator[1] IN
               /\ o1.core_restart_attempts = orchestrator[1].core_restart_attempts
               /\ o1.last_core_start = orchestrator[1].last_core_start
        /\ \A r \in StartServicesResults(G, "start_services") :
               LET o1 == r.g.orchestrator[1] IN
               IF r.ret.core = "spawned"
               THEN /\ o1.core_restart_attempts = 0
                    /\ o1.last_core_start = Some(InstantNow)
               ELSE /\ o1.core_restart_attempts = orchestrator[1].core_restart_attempts
                    /\ NotRewritten(orchestrator[1].last_core_start, o1.last_core_start)

\* C27 witness: the background loop has counted restarts and a start of the
\* user is about to spawn the primary process.
StartAboutToResetCounter ==
    /\ Ready
    /\ orchestrator[1].core_restart_attempts > 0
    /\ orchestrator[1].last_core_start # None
    /\ \E r \in StartServicesResults(G, "start_services") : r.ret.core = "spawned"

\* The steps that are not commands of the user: the background loop and the
\* spawned processes.
BackgroundSteps == {"tick", "sleep", "core_exits", "seaweed_exits"}

\* Between the two halves of a restart, as the stop left it: nothing wanted,
\* no primary handle.
StoppedForRestart ==
    /\ restart_pc = "stopped"
    /\ ~desired_running
    /\ orchestrator # None => orchestrator[1].core_child = None

RestartStep ==
    /\ ret'.op = "restart_services.stop" => StoppedForRestart'
    /\ (StoppedForRestart /\ ret'.op \in BackgroundSteps) =>
           /\ StoppedForRestart'
           /\ os'.core_live \subseteq os.core_live
           /\ os'.seaweed_live \subseteq os.seaweed_live
    /\ (StoppedForRestart /\ ret'.op = "restart_services.start" /\ ret'.ok) =>
           /\ orchestrator' # None /\ orchestrator'[1].core_child # None
           /\ orchestrator'[1].core_child[1].pid \in os'.core_live \ os.core_live

\* C28: restart_services is a stop and a start under two acquisitions of the
\* lock; the stop leaves desired_running false and the primary slot empty, a
\* step of the background in between keeps that and spawns nothing, and a
\* start that follows with no other command in between and succeeds leaves in
\* the slot a primary process spawned by that start, none that ran before.
RestartRunsANewPrimary == [][RestartStep]_vars

\* C28 witness: with automatic restart on, a tick has run between the stop and
\* the start of a restart and left the primary slot empty, and the start can
\* spawn.
TickBetweenStopAndStartOfRestart ==
    /\ Ready
    /\ StoppedForRestart
    /\ settings[1].auto_restart
    /\ ret.op = "tick"
    /\ \E r \in StartServicesResults(G, "restart_services.start") :
           r.ret.ok /\ r.ret.core = "spawned"

\* C29: a tick of the background loop neither spawns nor stops the auxiliary
\* process and changes neither the handle in the auxiliary slot nor the last
\* auxiliary error; an auxiliary process that has exited is not running again
\* after the tick.
TickLeavesAuxiliaryAlone ==
    Ready =>
        \A r \in MonitorResults(G) :
            LET o1 == r.g.orchestrator[1] IN
            /\ \A i \in 1..Len(r.g.ev) : r.g.ev[i][2] # "seaweed"
            /\ o1.seaweed_child = orchestrator[1].seaweed_child
            /\ o1.last_seaweed_error = orchestrator[1].last_seaweed_error
            /\ r.g.os.seaweed_live = os.seaweed_live

\* C29 witness: the tick has run its restart policy while the auxiliary
\* process, enabled and once started, is down; its handle is still in the slot.
TickRanOverCrashedAuxiliary ==
    /\ Ready
    /\ settings[1].seaweed_enabled
    /\ ret.op = "tick" /\ ret.tick # "skipped"
    /\ orchestrator[1].seaweed_child # None
    /\ ~SeaweedAlive(World(G))

\* The paths of an auxiliary start that spawned and returned success, and the
\* paths of a primary start that failed.
SeaweedSpawnPaths == {"ready", "timeout", "exited_unseen"}
CoreFailPaths == {"write_ports_failed", "not_found", "io_failed", "spawn_failed"}

\* C30: only a start_services call whose auxiliary start and primary start both
\* returned success makes desired_running true, and it does; a start_services
\* call that fails leaves desired_running as it was, and when it fails at the
\* primary after it spawned the auxiliary process, that process is not stopped:
\* its handle stays in the slot and nothing is killed.  No other handler turns
\* desired_running on.
WantedOnlyAfterBothStartsSucceed ==
    Ready =>
        /\ \A r \in StartServicesResults(G, "start_services") :
               LET o1 == r.g.orchestrator[1] IN
               /\ r.ret.ok =>
                      /\ r.g.desired_running
                      /\ r.ret.seaweed \in SeaweedOkPaths \cup {"disabled"}
                      /\ r.ret.core \in {"spawned", "already_running"}
               /\ ~r.ret.ok => r.g.desired_running = desired_running
               /\ (r.ret.core \in CoreFailPaths /\ r.ret.seaweed \in SeaweedSpawnPaths) =>
                      /\ ~r.ret.ok
                      /\ o1.seaweed_child # None
                      /\ o1.seaweed_child[1].pid \notin os.seaweed_live
                      /\ r.ret.seaweed # "exited_unseen" =>
                             o1.seaweed_child[1].pid \in r.g.os.seaweed_live
                      /\ \A i \in 1..Len(r.g.ev) : r.g.ev[i][1] # "kill"
        /\ \A r \in StopServicesResults(G, "stop_services") \cup MonitorResults(G)
                      \cup SaveWizardSettingsResults(G)
                      \cup ExitResults(G, "tray_exit") \cup HideResults(G, "window_close") :
               r.g.desired_running => desired_running
        /\ \A in \in UiEffectInputs(G) :
               ui_state_from_guard(G, in).g.desired_running = desired_running

\* C30 witness: a start_services call has failed at the spawn of the primary
\* process after it started the auxiliary process; desired_running is still
\* false and the auxiliary process runs.
PrimaryFailedOverRunningAuxiliary ==
    /\ Ready
    /\ ret.op = "start_services" /\ ~ret.ok
    /\ ret.err # None /\ ret.err[1].kind = "core_spawn"
    /\ ~desired_running
    /\ orchestrator[1].core_child = None
    /\ SeaweedAlive(World(G))

\* C31: when the readiness window of the auxiliary start runs out over a child
\* that is alive and whose S3 port never answered, the start returns success,
\* the handle of that child is in the slot and the last auxiliary error is
\* cleared.
ReadinessTimeoutIsASuccess ==
    (Ready /\ settings[1].seaweed_enabled) =>
        \A in \in StartSeaweedInputs(World(G), settings[1]) :
            LET r == start_seaweed_if_enabled(World(G), settings[1], in) IN
            r.path = "timeout" =>
                /\ r.ok /\ r.err = None
                /\ r.w.o.seaweed_child # None
                /\ r.w.o.seaweed_child[1].pid \in r.w.os.seaweed_live \ os.seaweed_live
                /\ r.w.o.last_seaweed_error = None
                /\ r.w.ev = <<<<"spawn", "seaweed">>>>

\* C31 witness: an auxiliary error is on record and a start is about to end in
\* the timeout of the readiness window.
TimeoutAboutToClearError ==
    /\ Ready /\ settings[1].seaweed_enabled
    /\ orchestrator[1].last_seaweed_error # None
    /\ \E in \in StartSeaweedInputs(World(G), settings[1]) :
           start_seaweed_if_enabled(World(G), settings[1], in).path = "timeout"

\* C32: whenever a last auxiliary error is recorded the auxiliary slot holds no
\* handle; a failed auxiliary start leaves no handle in the slot, and a start
\* that leaves a handle in the slot returned success and cleared the error.
AuxErrorMeansEmptySlot ==
    Ready =>
        /\ orchestrator[1].last_seaweed_error # None => orchestrator[1].seaweed_child = None
        /\ \A in \in StartSeaweedInputs(World(G), settings[1]) :
               LET r == start_seaweed_if_enabled(World(G), settings[1], in) IN
               /\ ~r.ok => r.w.o.seaweed_child = None
               /\ r.w.o.seaweed_child # None =>
                      r.ok /\ r.w.o.last_seaweed_error = None

====
